---- MODULE Spec2Model ----
(***************************************************************************)
(* Tab state machines of goread: the feed tab (RssFeedTab, an article     *)
(* list plus a preview viewport) and the category tab (category.Model, a  *)
(* feed list with create/edit/delete dispatch).  One tab instance is      *)
(* constructed, of either kind, and the container then delivers events to *)
(* its Update, resizes the window and renders its View.                   *)
(***************************************************************************)
EXTENDS Integers, Sequences, FiniteSets, TLC

VARIABLES kind, WindowWidth, WindowHeight, feed, cat, lastMsg, out,
          delivered, crashed

vars == <<kind, WindowWidth, WindowHeight, feed, cat, lastMsg, out,
          delivered, crashed>>

\* ---------------------------------------------------------------- bounds
MaxItems == 3          \* longest item sequence a fetch-success carries

\* ------------------------------------------------------------- constants
articlesList == 0
articlesPreview == 1
Padding == 4           \* "4 is the padding"
Chrome == 5            \* style.WindowHeight-5
ListDivisor == 4       \* style.WindowWidth / 4
ViewChrome == 3        \* style.WindowHeight-3-lipgloss.Height(loadingMessage)
MarginTop == 1         \* MarginTop(1)
SpinnerFrames == 4     \* spinner.Points

Widths == {0, 40, 100}
Heights == {0, 30}
Titles == {"A", "B"}
TabTitle == "A"

TabKinds == {"Welcome", "Feed", "Category"}

\* ----------------------------------------------------------------- items
\* A display item: identity string (FilterValue), description and body.
\* desc = 0 is the description as fetched; desc = w is it wrapped to width w.
Item(i) == [title |-> i, desc |-> 0, content |-> 10 + i]

FilterValue(it) == it.title

GetContent(it) == it.content

DescLen(it) == 10 * it.title

WrapDescription(it, w) == IF DescLen(it) <= w THEN it ELSE [it EXCEPT !.desc = w]

\* number of lines of a body, as strings.Split(content, "\n") counts them
LineCount(c) == IF c = 0 THEN 1 ELSE c + 13

Asc(n) == [i \in 1..n |-> Item(i)]

Desc(n) == [i \in 1..n |-> Item(n + 1 - i)]

ItemSets == {Asc(n) : n \in 0..MaxItems} \cup {Desc(n) : n \in 0..MaxItems}

NoItem == [title |-> 0, desc |-> 0, content |-> 0]

\* -------------------------------------------------------------- messages
Keys == {"enter", "left", "right", "up", "down", "n", "e", "d", "ctrl+d", "1", "x"}

FetchSuccessMessage(t, items) ==
    [type |-> "FetchSuccess", key |-> "", title |-> t, items |-> items]

KeyMsg(k) == [type |-> "Key", key |-> k, title |-> "", items |-> <<>>]

TickMsg == [type |-> "Tick", key |-> "", title |-> "", items |-> <<>>]

\* the keys the feed tab tells apart; "x" stands for every other key
FeedKeys == {"enter", "left", "right", "up", "down", "x"}

FetchMsgs == {FetchSuccessMessage(t, s) : t \in Titles, s \in ItemSets}

FeedMsgs == FetchMsgs \cup {KeyMsg(k) : k \in FeedKeys} \cup {TickMsg}

Msgs == FetchMsgs \cup {KeyMsg(k) : k \in Keys} \cup {TickMsg}

\* what the model remembers of the message handled last
Header(msg) == [type |-> msg.type, key |-> msg.key, title |-> msg.title]

NoMsg == [type |-> "None", key |-> "", title |-> ""]

\* -------------------------------------------------------------- commands
Nil == [type |-> "nil"]

SpinnerTick == [type |-> "spinner.Tick"]

NewTab(title, tabType) == [type |-> "NewTabMessage", Title |-> title, Type |-> tabType]

NewItem(itemType, new, path, fields) ==
    [type |-> "NewItem", Type |-> itemType, New |-> new, Path |-> path, Fields |-> fields]

DeleteItem(itemType, name) == [type |-> "DeleteItem", Type |-> itemType, Key |-> name]

Min(a, b) == IF a < b THEN a ELSE b

Max(a, b) == IF a > b THEN a ELSE b

\* ------------------------------------------- bubbles list (feed tab list)
ZeroList == [items |-> <<>>, index |-> 0, width |-> 0, height |-> 0]

ListNew(items, width, height) ==
    [items |-> items, index |-> 0, width |-> width, height |-> height]

ListSelectedItem(l) ==
    IF l.index < 0 \/ Len(l.items) = 0 \/ Len(l.items) <= l.index
    THEN NoItem ELSE l.items[l.index + 1]

ListUpdate(l, msg) ==
    IF msg.type # "Key" THEN l
    ELSE IF msg.key = "down" THEN [l EXCEPT !.index = Max(0, Min(l.index + 1, Len(l.items) - 1))]
    ELSE IF msg.key = "up" THEN [l EXCEPT !.index = Max(0, l.index - 1)]
    ELSE l

\* ------------------------------------------------------- bubbles viewport
ZeroViewport == [content |-> 0, width |-> 0, height |-> 0, yOffset |-> 0]

ViewportNew(width, height) ==
    [content |-> 0, width |-> width, height |-> height, yOffset |-> 0]

MaxYOffset(v) == Max(0, LineCount(v.content) - v.height)

ViewportSetContent(v, c) ==
    LET w == [v EXCEPT !.content = c]
    IN  IF w.yOffset > LineCount(c) - 1 THEN [w EXCEPT !.yOffset = MaxYOffset(w)] ELSE w

ViewportUpdate(v, msg) ==
    IF msg.type # "Key" THEN v
    ELSE IF msg.key = "down" THEN [v EXCEPT !.yOffset = Min(v.yOffset + 1, MaxYOffset(v))]
    ELSE IF msg.key = "up" THEN [v EXCEPT !.yOffset = Max(v.yOffset - 1, 0)]
    ELSE v

\* ---------------------------------------------------------------- spinner
SpinnerUpdate(s, msg) == IF msg.type = "Tick" THEN (s + 1) % SpinnerFrames ELSE s

SpinnerCmd(msg) == IF msg.type = "Tick" THEN SpinnerTick ELSE Nil

\* --------------------------------------------------------------- feed tab
\* The result of one Update call: the returned tab, the returned command, the
\* widget the message was forwarded to, whether the call panicked, and the
\* message's item slice as the call leaves it (Go slices share their array).
Result(r, cmd, fwd, items) == [r |-> r, cmd |-> cmd, fwd |-> fwd, panic |-> FALSE, items |-> items]

Panic(r, items) == [r |-> r, cmd |-> Nil, fwd |-> "none", panic |-> TRUE, items |-> items]

RssFeedTabNew(title) ==
    [title |-> title, loaded |-> FALSE, loadingSpinner |-> 0, list |-> ZeroList,
     isViewportOpen |-> FALSE, viewport |-> ZeroViewport, selected |-> articlesList]

WrapAll(items, listWidth) == [i \in 1..Len(items) |-> WrapDescription(items[i], listWidth)]

\* loadTab with the padding left out of the viewport width
loadTab_NoPadding(r, items, W, H) ==
    LET listWidth == W \div ListDivisor
        viewportWidth == W - listWidth
        wrapped == WrapAll(items, listWidth)
    IN  [r |-> [r EXCEPT !.list = ListNew(wrapped, listWidth, H - Chrome),
                         !.viewport = ViewportNew(viewportWidth, H - Chrome),
                         !.loaded = TRUE],
         items |-> wrapped]

loadTab(r, items, W, H) ==
    LET listWidth == W \div ListDivisor
        viewportWidth == W - listWidth - Padding
        wrapped == WrapAll(items, listWidth)
    IN  [r |-> [r EXCEPT !.list = ListNew(wrapped, listWidth, H - Chrome),
                         !.viewport = ViewportNew(viewportWidth, H - Chrome),
                         !.loaded = TRUE],
         items |-> wrapped]

\* the pane update that always goes to the list, whatever pane is selected
UpdatePane_ListOnly(r, msg) ==
    IF r.loaded
    THEN Result([r EXCEPT !.list = ListUpdate(r.list, msg)], Nil, "list", msg.items)
    ELSE Result(r, Nil, "none", msg.items)

\* the pane update without the test that the tab is loaded
UpdatePane_NoLoadedGuard(r, msg) ==
    IF r.selected = articlesList
    THEN Result([r EXCEPT !.list = ListUpdate(r.list, msg)], Nil, "list", msg.items)
    ELSE Result([r EXCEPT !.viewport = ViewportUpdate(r.viewport, msg)], Nil, "viewport", msg.items)

\* "Update the selected item from the pane"
UpdatePane(r, msg) ==
    IF r.selected = articlesList
    THEN IF r.loaded
         THEN Result([r EXCEPT !.list = ListUpdate(r.list, msg)], Nil, "list", msg.items)
         ELSE Result(r, Nil, "none", msg.items)
    ELSE Result([r EXCEPT !.viewport = ViewportUpdate(r.viewport, msg)], Nil, "viewport", msg.items)

\* the guard without its latch: every fetch-success reloads the tab
CanLoad_NoLatch(r, W, H) == W > 0 /\ H > 0

\* the guard without its size gate
CanLoad_NoSizeGate(r, W, H) == ~r.loaded

\* the guard of the FetchSuccessMessage case
CanLoad(r, W, H) == ~r.loaded /\ W > 0 /\ H > 0

\* enter without the test that the tab is loaded
OnEnter_NoLoadedCheck(r, msg) ==
    IF ListSelectedItem(r.list) = NoItem THEN Panic(r, msg.items)
    ELSE Result([r EXCEPT
                   !.viewport = ViewportSetContent(r.viewport,
                                    GetContent(ListSelectedItem(r.list))),
                   !.isViewportOpen = TRUE],
                Nil, "none", msg.items)

\* case "enter"
OnEnter(r, msg) ==
    IF ~r.loaded THEN Result(r, Nil, "none", msg.items)
    ELSE IF ListSelectedItem(r.list) = NoItem THEN Panic(r, msg.items)
    ELSE Result([r EXCEPT
                   !.viewport = ViewportSetContent(r.viewport,
                                    GetContent(ListSelectedItem(r.list))),
                   !.isViewportOpen = TRUE],
                Nil, "none", msg.items)

\* left/right that toggle the pane whether or not the viewport is open
OnLeftRight_Always(r, msg) ==
    Result([r EXCEPT !.selected = IF r.selected = articlesPreview
                                  THEN articlesList ELSE articlesPreview],
           Nil, "none", msg.items)

\* case "left", "right"
OnLeftRight(r, msg) ==
    IF ~r.isViewportOpen THEN Result(r, Nil, "none", msg.items)
    ELSE Result([r EXCEPT !.selected = IF r.selected = articlesPreview
                                       THEN articlesList ELSE articlesPreview],
                Nil, "none", msg.items)

RssFeedTabUpdate(r, msg, W, H) ==
    IF msg.type = "FetchSuccess"
    THEN IF CanLoad(r, W, H)
         THEN LET l == loadTab(r, msg.items, W, H) IN Result(l.r, Nil, "none", l.items)
         ELSE UpdatePane(r, msg)
    ELSE IF msg.type = "Key"
    THEN IF msg.key = "enter" THEN OnEnter(r, msg)
         ELSE IF msg.key \in {"left", "right"} THEN OnLeftRight(r, msg)
         ELSE UpdatePane(r, msg)
    ELSE IF ~r.loaded
         THEN Result([r EXCEPT !.loadingSpinner = SpinnerUpdate(r.loadingSpinner, msg)],
                     SpinnerCmd(msg), "spinner", msg.items)
         ELSE UpdatePane(r, msg)

\* lipgloss.Height of the one-line message with its top margin
LoadingMessageHeight == 1 + MarginTop

PanicFrame == [kind |-> "panic"]

RssFeedTabView(r, H) ==
    IF ~r.loaded
    THEN LET pad == H - ViewChrome - LoadingMessageHeight
         IN  IF pad < 0 THEN PanicFrame
             ELSE [kind |-> "loading", spinner |-> r.loadingSpinner, title |-> r.title,
                   pad |-> pad]
    ELSE IF ~r.isViewportOpen
    THEN [kind |-> "list", list |-> r.list]
    ELSE [kind |-> "split", list |-> r.list, viewport |-> r.viewport, focus |-> r.selected]

\* ------------------------------------------ simplelist (category tab list)
ZeroSimpleList == [items |-> <<>>, index |-> 0, height |-> 0]

SimpleListNew(height) == [items |-> <<>>, index |-> 0, height |-> height]

SetItems(l, items) == [l EXCEPT !.items = items]

SetHeight(l, height) == [l EXCEPT !.height = height]

IsEmpty(l) == Len(l.items) = 0

Index(l) == l.index

SetIndex(l, i) == [l EXCEPT !.index = i]

SelectedItem(l) ==
    IF l.index >= 0 /\ l.index < Len(l.items) THEN l.items[l.index + 1] ELSE NoItem

ShortcutIndex(k) == IF k = "1" THEN 1 ELSE IF k = "2" THEN 2 ELSE 0

\* lookup of an item by its shortcut key; NoItem when there is none
GetItem(l, k) ==
    IF ShortcutIndex(k) >= 1 /\ ShortcutIndex(k) <= Len(l.items)
    THEN l.items[ShortcutIndex(k)] ELSE NoItem

SimpleListUpdate(l, msg) ==
    IF msg.type # "Key" THEN l
    ELSE IF msg.key = "down" /\ l.index + 1 < Len(l.items) THEN [l EXCEPT !.index = l.index + 1]
    ELSE IF msg.key = "up" /\ l.index > 0 THEN [l EXCEPT !.index = l.index - 1]
    ELSE l

\* ----------------------------------------------------------- category tab
SelectFeedKeys == {"enter"}

NewFeedKeys == {"n", "ctrl+n"}

EditFeedKeys == {"e", "ctrl+e"}

DeleteFeedKeys == {"d", "ctrl+d"}

CategoryNew(width, height, title) ==
    [width |-> width, height |-> height, title |-> title, loaded |-> FALSE,
     list |-> ZeroSimpleList]

\* SetSize that sizes the list from the height the tab had before the call
SetSize_StaleHeight(m, width, height) ==
    [m EXCEPT !.width = width, !.height = height, !.list = SetHeight(m.list, m.height)]

SetSize(m, width, height) ==
    [m EXCEPT !.width = width, !.height = height, !.list = SetHeight(m.list, height)]

\* "Update the list"
UpdateList(m, msg) ==
    Result([m EXCEPT !.list = SimpleListUpdate(m.list, msg)], Nil, "list", msg.items)

\* a fetch-success handler that takes items on the first load only
OnFetchSuccess_Latched(m, msg) ==
    IF ~m.loaded
    THEN Result([m EXCEPT !.list = SetItems(SimpleListNew(m.height), msg.items),
                          !.loaded = TRUE],
                Nil, "none", msg.items)
    ELSE Result(m, Nil, "none", msg.items)

\* case backend.FetchSuccessMessage
OnFetchSuccess(m, msg) ==
    LET l == IF ~m.loaded THEN SimpleListNew(m.height) ELSE m.list
    IN  Result([m EXCEPT !.list = SetItems(l, msg.items), !.loaded = TRUE],
               Nil, "none", msg.items)

\* a select that opens the first item instead of the selected one
OnSelectFeed_FirstItem(m, msg) ==
    IF ~IsEmpty(m.list)
    THEN Result(m, NewTab(FilterValue(m.list.items[1]), "Feed"), "none", msg.items)
    ELSE Result(m, Nil, "none", msg.items)

\* case key.Matches(msg, m.keymap.SelectFeed)
OnSelectFeed(m, msg) ==
    IF ~IsEmpty(m.list)
    THEN IF SelectedItem(m.list) = NoItem THEN Panic(m, msg.items)
         ELSE Result(m, NewTab(FilterValue(SelectedItem(m.list)), "Feed"), "none", msg.items)
    ELSE Result(m, Nil, "none", msg.items)

\* a new-feed request that is not marked as new
OnNewFeed_NotNew(m, msg) ==
    Result(m, NewItem("Feed", FALSE, <<m.title>>, <<>>), "none", msg.items)

\* case key.Matches(msg, m.keymap.NewFeed)
OnNewFeed(m, msg) ==
    Result(m, NewItem("Feed", TRUE, <<m.title>>, <<>>), "none", msg.items)

\* case key.Matches(msg, m.keymap.EditFeed)
OnEditFeed(m, msg) ==
    IF IsEmpty(m.list) THEN Result(m, Nil, "none", msg.items)
    ELSE IF SelectedItem(m.list) = NoItem THEN Panic(m, msg.items)
    ELSE LET item == SelectedItem(m.list)
         IN  Result(m, NewItem("Feed", FALSE, <<m.title, FilterValue(item)>>,
                               <<FilterValue(item), item.desc>>),
                    "none", msg.items)

\* the cursor adjustment taken modulo the count before the removal
NextIndex_OffByOne(index, itemCount) ==
    IF itemCount = 1 THEN 0 ELSE index % itemCount

\* "Move the selection to the next item"
NextIndex(index, itemCount) ==
    IF itemCount = 1 THEN 0 ELSE index % (itemCount - 1)

\* case key.Matches(msg, m.keymap.DeleteFeed)
OnDeleteFeed(m, msg) ==
    IF ~IsEmpty(m.list)
    THEN IF SelectedItem(m.list) = NoItem THEN Panic(m, msg.items)
         ELSE LET delItemName == FilterValue(SelectedItem(m.list))
                  itemCount == Len(m.list.items)
              IN  Result([m EXCEPT !.list = SetIndex(m.list,
                                                NextIndex(Index(m.list), itemCount))],
                         DeleteItem("Feed", delItemName), "none", msg.items)
    ELSE UpdateList(m, msg)

CategoryUpdate(m, msg) ==
    IF msg.type = "FetchSuccess" THEN OnFetchSuccess(m, msg)
    ELSE IF msg.type = "Key"
    THEN IF ~m.loaded THEN Result(m, Nil, "none", msg.items)
         ELSE IF msg.key \in SelectFeedKeys THEN OnSelectFeed(m, msg)
         ELSE IF msg.key \in NewFeedKeys THEN OnNewFeed(m, msg)
         ELSE IF msg.key \in EditFeedKeys THEN OnEditFeed(m, msg)
         ELSE IF msg.key \in DeleteFeedKeys THEN OnDeleteFeed(m, msg)
         ELSE IF GetItem(m.list, msg.key) # NoItem
         THEN Result(m, NewTab(FilterValue(GetItem(m.list, msg.key)), "Feed"),
                     "none", msg.items)
         ELSE UpdateList(m, msg)
    ELSE UpdateList(m, msg)

CategoryView(m) ==
    IF ~m.loaded THEN [kind |-> "loading"] ELSE [kind |-> "list", list |-> m.list]

\* ---------------------------------------------------------- state machine
NoOut == [cmd |-> Nil, fwd |-> "none", mutated |-> FALSE]

\* what a call of Update leaves behind besides the tab: its command, the widget
\* it forwarded to, and whether it wrote to the message's item slice
Outcome(res, msg) == [cmd |-> res.cmd, fwd |-> res.fwd, mutated |-> res.items # msg.items]

Init ==
    /\ kind \in {"Feed", "Category"}
    /\ WindowWidth = 0
    /\ WindowHeight = 0
    /\ feed = RssFeedTabNew(TabTitle)
    /\ \E w \in Widths, h \in Heights :
          cat = CategoryNew(IF kind = "Category" THEN w ELSE 0,
                            IF kind = "Category" THEN h ELSE 0, TabTitle)
    /\ lastMsg = NoMsg
    /\ out = NoOut
    /\ delivered = FALSE
    /\ crashed = FALSE

\* what the feed tab's Update returns for msg in the current state
FeedAfter(msg) == RssFeedTabUpdate(feed, msg, WindowWidth, WindowHeight)

\* what the category tab's Update returns for msg in the current state
CatAfter(msg) == CategoryUpdate(cat, msg)

\* the container hands one message to the feed tab's Update
FeedDeliver(msg) ==
    /\ kind = "Feed"
    /\ ~crashed
    /\ LET res == FeedAfter(msg)
       IN  /\ feed' = res.r
           /\ out' = Outcome(res, msg)
           /\ lastMsg' = Header(msg)
           /\ crashed' = res.panic
    /\ delivered' = (delivered \/ msg.type = "FetchSuccess")
    /\ UNCHANGED <<kind, WindowWidth, WindowHeight, cat>>

\* the container hands one message to the category tab's Update
CategoryDeliver(msg) ==
    /\ kind = "Category"
    /\ ~crashed
    /\ LET res == CatAfter(msg)
       IN  /\ cat' = res.r
           /\ out' = Outcome(res, msg)
           /\ lastMsg' = Header(msg)
           /\ crashed' = res.panic
    /\ delivered' = (delivered \/ msg.type = "FetchSuccess")
    /\ UNCHANGED <<kind, WindowWidth, WindowHeight, feed>>

\* the terminal is resized: the style globals the feed tab reads change
SetWindowSize(w, h) ==
    /\ kind = "Feed"
    /\ ~crashed
    /\ WindowWidth' = w
    /\ WindowHeight' = h
    /\ UNCHANGED <<kind, feed, cat, lastMsg, out, delivered, crashed>>

\* the terminal is resized: the container calls the category tab's SetSize
CategorySetSize(w, h) ==
    /\ kind = "Category"
    /\ ~crashed
    /\ cat' = SetSize(cat, w, h)
    /\ UNCHANGED <<kind, WindowWidth, WindowHeight, feed, lastMsg, out, delivered, crashed>>

\* the container renders the feed tab; View is pure, but it can panic
FeedRender ==
    /\ kind = "Feed"
    /\ ~crashed
    /\ crashed' = (RssFeedTabView(feed, WindowHeight) = PanicFrame)
    /\ UNCHANGED <<kind, WindowWidth, WindowHeight, feed, cat, lastMsg, out, delivered>>

Next ==
    \/ \E msg \in FeedMsgs : FeedDeliver(msg)
    \/ \E msg \in Msgs : CategoryDeliver(msg)
    \/ \E w \in Widths, h \in Heights : SetWindowSize(w, h)
    \/ \E w \in Widths, h \in Heights : CategorySetSize(w, h)
    \/ FeedRender

Spec == Init /\ [][Next]_vars

\* ------------------------------------------------------------ properties
SizeKnown == WindowWidth > 0 /\ WindowHeight > 0

\* C1: a fetch-success delivered to a Feed Tab in Loading while the container
\* width W and height H are both positive leaves the tab loaded, with the
\* preview closed and the list focused, list width floor(W/4), viewport width
\* W - floor(W/4) - 4 and both pane heights H - 5; (100, 30) gives 25 and 71.
C1_FeedLoad ==
    [][\A msg \in FetchMsgs :
         (~feed.loaded /\ SizeKnown /\ FeedDeliver(msg)) =>
            /\ feed'.loaded
            /\ ~feed'.isViewportOpen
            /\ feed'.selected = articlesList
            /\ feed'.list.width = WindowWidth \div 4
            /\ feed'.viewport.width = WindowWidth - (WindowWidth \div 4) - 4
            /\ feed'.list.height = WindowHeight - 5
            /\ feed'.viewport.height = WindowHeight - 5
            /\ (WindowWidth = 100 /\ WindowHeight = 30 =>
                   feed'.list.width = 25 /\ feed'.viewport.width = 71)]_vars

\* a Feed Tab just loaded in a 100 x 30 container
C1_Witness ==
    /\ kind = "Feed"
    /\ lastMsg.type = "FetchSuccess"
    /\ feed.loaded /\ ~feed.isViewportOpen /\ feed.selected = articlesList
    /\ Len(feed.list.items) = 3
    /\ feed.list.width = 25 /\ feed.viewport.width = 71
    /\ feed.list.height = 25 /\ feed.viewport.height = 25

\* C2: a tab accepts a fetch-success only if its title equals the tab's title:
\* an event that is not a fetch-success with the matching title leaves loaded
\* as it was, and a tab that was not loaded still renders no list or viewport.
C2_TitleCorrelation ==
    [][\A msg \in Msgs :
         (msg.title # TabTitle /\ (FeedDeliver(msg) \/ CategoryDeliver(msg))) =>
            /\ feed'.loaded = feed.loaded
            /\ cat'.loaded = cat.loaded
            /\ (kind = "Feed" /\ ~feed.loaded =>
                   RssFeedTabView(feed', WindowHeight).kind \notin {"list", "split"})
            /\ (kind = "Category" /\ ~cat.loaded =>
                   CategoryView(cat').kind = "loading")]_vars

\* C3: once a Feed Tab is loaded no step sets loaded back to false, and in
\* every state of a loaded Feed Tab the Update of any fetch-success returns the
\* tab with the same list items, selection, isViewportOpen and selected pane.
C3_LoadLatch ==
    /\ [][feed.loaded => feed'.loaded]_vars
    /\ [](feed.loaded =>
            \A msg \in FetchMsgs :
               LET after == FeedAfter(msg)
               IN  /\ ~after.panic
                   /\ after.r.loaded
                   /\ after.r.list.items = feed.list.items
                   /\ after.r.list.index = feed.list.index
                   /\ after.r.isViewportOpen = feed.isViewportOpen
                   /\ after.r.selected = feed.selected)

\* a second fetch-success has been handled by a tab that was loaded with three
\* items, had its selection moved and its preview opened and focused
C3_Witness ==
    /\ kind = "Feed"
    /\ lastMsg.type = "FetchSuccess"
    /\ feed.loaded /\ feed.isViewportOpen /\ feed.selected = articlesPreview
    /\ Len(feed.list.items) = 3 /\ feed.list.index = 2

\* C4: every fetch-success delivered to a Category Tab makes the list hold
\* exactly the event's items and leaves the tab loaded; the list is constructed
\* (cursor 0, height of the tab) on the first one only, a later one keeps the
\* list's cursor and height.
C4_CategoryRefresh ==
    [][\A msg \in FetchMsgs :
         CategoryDeliver(msg) =>
            /\ ~crashed'
            /\ cat'.loaded
            /\ cat'.list.items = msg.items
            /\ (~cat.loaded => cat'.list.index = 0 /\ cat'.list.height = cat.height)
            /\ (cat.loaded => cat'.list.index = cat.list.index
                              /\ cat'.list.height = cat.list.height)]_vars

\* a loaded Category Tab whose cursor had been moved has taken a second item set
C4_Witness ==
    /\ kind = "Category"
    /\ lastMsg.type = "FetchSuccess"
    /\ cat.loaded /\ cat.list.index = 1
    /\ cat.list.items = Desc(2)

\* C5 as stated: for the Feed Tab and the Category Tab alike, loaded becomes
\* true only in a step in which the width and height known to the tab are both
\* nonzero.
C5_SizeGateAllTabs ==
    [][/\ (~feed.loaded /\ feed'.loaded => SizeKnown)
       /\ (~cat.loaded /\ cat'.loaded => cat.width # 0 /\ cat.height # 0)]_vars

\* C5, amended: the size gate is the Feed Tab's: its loaded becomes true only in
\* a step in which the container width and height are both nonzero, and a
\* fetch-success arriving while either is zero leaves it in Loading; a Category
\* Tab is loaded by every fetch-success whatever its width and height.
C5_SizeGate ==
    [][/\ (~feed.loaded /\ feed'.loaded => WindowWidth # 0 /\ WindowHeight # 0)
       /\ \A msg \in FetchMsgs :
            /\ (~feed.loaded /\ (WindowWidth = 0 \/ WindowHeight = 0) /\ FeedDeliver(msg))
                  => ~feed'.loaded
            /\ (CategoryDeliver(msg) => cat'.loaded)]_vars

\* a fetch-success has reached a Feed Tab whose container height is still zero,
\* and the tab is still in Loading
C5_Witness ==
    /\ kind = "Feed"
    /\ lastMsg.type = "FetchSuccess"
    /\ WindowWidth > 0 /\ WindowHeight = 0
    /\ ~feed.loaded

\* C6: once a fetch-success has been delivered to a Feed Tab and the container
\* dimensions are nonzero, the tab is Loaded without a further fetch-success:
\* the next event other than a fetch-success that it handles leaves it loaded.
C6_NoDataLoss ==
    [][\A msg \in FeedMsgs \ FetchMsgs :
         (delivered /\ SizeKnown /\ lastMsg' = Header(msg) /\ FeedDeliver(msg))
            => feed'.loaded]_vars

\* C7: in a loaded Feed Tab every "enter" is handled, sets the viewport content
\* to the body of the selected item and isViewportOpen to true and leaves the
\* selected pane alone; isViewportOpen, once true, stays true.
C7_Enter ==
    [][/\ (feed.isViewportOpen => feed'.isViewportOpen)
       /\ (feed.loaded /\ FeedDeliver(KeyMsg("enter"))) =>
             /\ ~crashed'
             /\ feed'.isViewportOpen
             /\ feed'.viewport.content = GetContent(ListSelectedItem(feed.list))
             /\ feed'.selected = feed.selected]_vars

\* C8: "left" and "right" return the Feed Tab unchanged while the viewport is
\* not open and otherwise flip the selected pane and change nothing else, so
\* that a second one restores the pane; no other step changes the selected pane.
C8_FocusToggle ==
    /\ [][feed'.selected # feed.selected =>
             lastMsg'.key \in {"left", "right"} /\ feed.isViewportOpen]_vars
    /\ [](\A k \in {"left", "right"} :
            LET res == FeedAfter(KeyMsg(k))
                once == res.r
            IN  /\ ~res.panic
                /\ (~feed.isViewportOpen => once = feed)
                /\ (feed.isViewportOpen =>
                      /\ once.selected # feed.selected
                      /\ once.selected \in {articlesList, articlesPreview}
                      /\ [once EXCEPT !.selected = feed.selected] = feed
                      /\ \A k2 \in {"left", "right"} :
                            RssFeedTabUpdate(once, KeyMsg(k2), WindowWidth,
                                             WindowHeight).r = feed))
    /\ [](\A msg \in FeedMsgs :
            msg.key \notin {"left", "right"} =>
               FeedAfter(msg).r.selected = feed.selected)

\* "right" has moved the focus of an open split view to the preview
C8_Witness ==
    /\ kind = "Feed"
    /\ lastMsg.key = "right"
    /\ feed.isViewportOpen /\ feed.selected = articlesPreview

\* the cursor of the category list is an index of its items
CursorValid == cat.list.index >= 0 /\ cat.list.index < Len(cat.list.items)

C10_DeleteCursor ==
    [][\A k \in DeleteFeedKeys :
         LET n == Len(cat.list.items)
             i == cat.list.index
         IN  (cat.loaded /\ n >= 1 /\ CursorValid /\ CategoryDeliver(KeyMsg(k))) =>
                /\ ~crashed'
                /\ out'.cmd = [type |-> "DeleteItem", Type |-> "Feed",
                               Key |-> cat.list.items[i + 1].title]
                /\ cat'.list.items = cat.list.items
                /\ (n = 1 => cat'.list.index = 0)
                /\ (n > 1 => cat'.list.index = i % (n - 1))
                /\ (n = 3 /\ i = 2 => cat'.list.index = 0)
                /\ (n >= 2 => cat'.list.index >= 0 /\ cat'.list.index < n - 1)]_vars

\* delete on the last of three items has named it and moved the cursor to 0
C10_Witness ==
    /\ kind = "Category"
    /\ lastMsg.key = "d"
    /\ cat.loaded /\ cat.list.items = Asc(3) /\ cat.list.index = 0
    /\ out.cmd = [type |-> "DeleteItem", Type |-> "Feed", Key |-> 3]

\* C11: while a tab is not loaded, the Update of any key returns the tab
\* unchanged and no command, for the Feed Tab and the Category Tab alike.
C11_InputBeforeLoad ==
    /\ (kind = "Feed" /\ ~feed.loaded =>
          \A k \in Keys :
             LET res == FeedAfter(KeyMsg(k))
             IN  ~res.panic /\ res.r = feed /\ res.cmd = Nil)
    /\ (kind = "Category" /\ ~cat.loaded =>
          \A k \in Keys \cup NewFeedKeys \cup EditFeedKeys \cup DeleteFeedKeys :
             LET res == CatAfter(KeyMsg(k))
             IN  ~res.panic /\ res.r = cat /\ res.cmd = Nil)

\* "enter" has been handled by a Feed Tab that a fetch-success reached too
\* early, and the tab is still the one New returned
C11_Witness ==
    /\ kind = "Feed"
    /\ delivered /\ SizeKnown
    /\ lastMsg.type = "Key" /\ lastMsg.key = "enter"
    /\ feed = RssFeedTabNew(TabTitle)
    /\ out.cmd = Nil /\ ~crashed

\* C12: no call of Update writes outside the returned tab: the item sequence
\* of the message handled last is what it was before the call.
C12_NoSharedMutation == ~out.mutated

\* C13: a loaded Feed Tab follows the container's size: once it has handled an
\* event with the container at (W, H), W and H nonzero, its list width is
\* floor(W/4), its viewport width W - floor(W/4) - 4 and both heights H - 5.
C13_Resize ==
    [][\A msg \in FeedMsgs :
         (feed.loaded /\ SizeKnown /\ lastMsg' = Header(msg) /\ FeedDeliver(msg)
            /\ ~crashed') =>
            /\ feed'.list.width = WindowWidth \div 4
            /\ feed'.viewport.width = WindowWidth - (WindowWidth \div 4) - 4
            /\ feed'.list.height = WindowHeight - 5
            /\ feed'.viewport.height = WindowHeight - 5]_vars

\* C14: SetSize(w, h) on a Category Tab, loaded or not, stores w and h, gives
\* the list the height h and leaves loaded, the items and the cursor alone; a
\* second SetSize(w, h) returns the tab the first one returned.
C14_SetSize ==
    [][\A w \in Widths, h \in Heights :
         CategorySetSize(w, h) =>
            /\ ~crashed'
            /\ cat'.width = w /\ cat'.height = h /\ cat'.list.height = h
            /\ cat'.loaded = cat.loaded
            /\ cat'.title = cat.title
            /\ cat'.list.items = cat.list.items
            /\ cat'.list.index = cat.list.index
            /\ SetSize(cat', w, h) = cat']_vars

\* a Category Tab built at 0 x 0 has been resized to 100 x 30 before its load
C14_Witness ==
    /\ kind = "Category"
    /\ ~cat.loaded /\ ~delivered
    /\ cat.width = 100 /\ cat.height = 30 /\ cat.list.height = 30

\* C15: in a loaded Feed Tab the Update of any event other than "enter", "left"
\* and "right" forwards it to exactly one pane, the list when the list is
\* selected and the viewport when the preview is, and returns the other pane
\* as it was.
C15_Routing ==
    (kind = "Feed" /\ feed.loaded) =>
       \A msg \in Msgs :
          msg.key \notin {"enter", "left", "right"} =>
             LET res == FeedAfter(msg)
             IN  /\ ~res.panic
                 /\ (feed.selected = articlesList =>
                        res.fwd = "list" /\ res.r.viewport = feed.viewport)
                 /\ (feed.selected = articlesPreview =>
                        res.fwd = "viewport" /\ res.r.list = feed.list)
                 /\ res.r.selected = feed.selected
                 /\ res.r.isViewportOpen = feed.isViewportOpen

\* "down" has scrolled the focused preview by a line; the list selection is
\* still on the third item, whose body the preview shows
C15_Witness ==
    /\ kind = "Feed"
    /\ lastMsg.key = "down"
    /\ feed.selected = articlesPreview /\ out.fwd = "viewport"
    /\ feed.viewport.yOffset = 1
    /\ feed.list.index = 2 /\ feed.viewport.content = GetContent(feed.list.items[3])

\* C16: on a loaded Category Tab with an empty list the edit key and the delete
\* key return the tab unchanged and no command, and are not forwarded to the
\* list.
C16_EmptyListNoOps ==
    (kind = "Category" /\ cat.loaded /\ IsEmpty(cat.list)) =>
       \A k \in EditFeedKeys \cup DeleteFeedKeys :
          LET res == CatAfter(KeyMsg(k))
          IN  ~res.panic /\ res.r = cat /\ res.cmd = Nil /\ res.fwd = "none"

\* C17: a loaded Feed Tab handles every "enter" without a panic.
C17_EnterNeverFails ==
    [][(feed.loaded /\ FeedDeliver(KeyMsg("enter"))) => ~crashed']_vars

\* C18: the view of a Feed Tab in Loading succeeds for every container height
\* H and pads the message with H - 3 - 2 lines, a number that is not negative.
C18_LoadingView ==
    (kind = "Feed" /\ ~feed.loaded) =>
       LET v == RssFeedTabView(feed, WindowHeight)
       IN  /\ v.kind = "loading"
           /\ v.pad = WindowHeight - 3 - 2
           /\ v.pad >= 0

\* C19: on a loaded Category Tab the new key returns the tab unchanged and the
\* one request NewItem(Feed, new, path [title of the tab], no fields), whatever
\* the list holds and wherever the cursor is.
C19_New ==
    (kind = "Category" /\ cat.loaded) =>
       \A k \in NewFeedKeys :
          LET res == CatAfter(KeyMsg(k))
          IN  /\ ~res.panic
              /\ res.r = cat
              /\ res.fwd = "none"
              /\ res.cmd = [type |-> "NewItem", Type |-> "Feed", New |-> TRUE,
                            Path |-> <<cat.title>>, Fields |-> <<>>]

\* the new key has been handled on a Category Tab whose list is empty
C19_Witness ==
    /\ kind = "Category"
    /\ lastMsg.key = "n"
    /\ cat.loaded /\ cat.list.items = <<>>
    /\ out.cmd.type = "NewItem" /\ out.cmd.New /\ out.cmd.Path = <<TabTitle>>

\* C20: in every state of a Feed Tab the preview is selected only if the
\* viewport is open and the viewport is open only if the tab is loaded; while
\* the tab is in Loading no event is forwarded to the list or the viewport.
C20_FocusInvariant ==
    /\ (feed.selected = articlesPreview => feed.isViewportOpen)
    /\ (feed.isViewportOpen => feed.loaded)
    /\ (kind = "Feed" /\ ~feed.loaded =>
          /\ out.fwd \notin {"list", "viewport"}
          /\ \A msg \in Msgs : FeedAfter(msg).fwd \notin {"list", "viewport"})

\* the preview of a loaded tab is open and focused and has just been handed a key
C20_Witness ==
    /\ kind = "Feed"
    /\ feed.loaded /\ feed.isViewportOpen /\ feed.selected = articlesPreview
    /\ lastMsg.key = "x" /\ out.fwd = "viewport"

====
